---- MODULE Spec2Model ----
(***************************************************************************)
(* Model of internal/resources/kubeadm_phases.go (kamaji): the KubeadmPhase *)
(* resource handle, its checksum-gated status projection onto the owning    *)
(* TenantControlPlane, the kubeadm function dispatch and the bootstrap      *)
(* token enrichment.                                                        *)
(***************************************************************************)
EXTENDS Integers, Sequences, FiniteSets, TLC

VARIABLES
    phase,            \* r.Phase of every KubeadmPhase handle (fixed at construction)
    checksum,         \* r.checksum of every handle
    status,           \* tenantControlPlane.Status.KubeadmPhase.<field>.Checksum
    applied,          \* history: r.checksum was stored by the handle's last, successful, apply
    bootstrapTokens,  \* the caller's config.InitConfiguration.BootstrapTokens
    enrichArg,        \* history: the token list handed to the last enrichment
    invoked,          \* history: the kubeadm routine run by the last direct call of a dispatched function
    last              \* the last call: operation, handle, argument, result, error, inner error

vars == <<phase, checksum, status, applied, bootstrapTokens, enrichArg, invoked, last>>

----------------------------------------------------------------------------
(* Bounds and value sets *)

\* kubeadmPhase is an int; handles are built with a phase value in 0..MaxPhase
MaxPhase == 5
\* longest token list handed to the enrichment
MaxTokens == 2

PhaseValues == 0..MaxPhase
Handles == {"r1", "r2"}
Fingerprints == {"", "abc123", "def456"}
\* a computed digest is never the empty string
Digests == Fingerprints \ {""}

NoErr == "nil"
Panic == "panic"
ApplyErrors == {NoErr, "apply failed"}

----------------------------------------------------------------------------
(* kubeadmPhase *)

PhaseUploadConfigKubeadm == 0
PhaseUploadConfigKubelet == 1
PhaseBootstrapToken == 2

DeclaredPhases == {PhaseUploadConfigKubeadm, PhaseUploadConfigKubelet, PhaseBootstrapToken}

PhaseNames ==
    <<"PhaseUploadConfigKubeadm", "PhaseUploadConfigKubelet", "PhaseAddonCoreDNS",
      "PhaseAddonKubeProxy", "PhaseBootstrapToken">>

\* d.String(): indexes a five-element array; an index outside it panics
String(d) == IF d \in 0..(Len(PhaseNames) - 1) THEN PhaseNames[d + 1] ELSE Panic

\* fmt's %s of a kubeadmPhase: fmt recovers a panic of the String method and
\* prints a diagnostic in its place
FmtPhase(d) ==
    IF String(d) # Panic THEN String(d)
    ELSE "%!s(PANIC=String method: runtime error: index out of range [" \o ToString(d)
         \o "] with length " \o ToString(Len(PhaseNames)) \o ")"

----------------------------------------------------------------------------
(* Status projection *)

StatusFields == {"UploadConfigKubeadm", "UploadConfigKubelet", "BootstrapToken"}

\* mutant: the kubelet case returns the address of the kubeadm field
GetStatus_KubeletAsKubeadm(h) ==
    CASE phase[h] = PhaseUploadConfigKubeadm -> [field |-> "UploadConfigKubeadm", err |-> NoErr]
      [] phase[h] = PhaseUploadConfigKubelet -> [field |-> "UploadConfigKubeadm", err |-> NoErr]
      [] phase[h] = PhaseBootstrapToken      -> [field |-> "BootstrapToken", err |-> NoErr]
      [] OTHER -> [field |-> "nil", err |-> FmtPhase(phase[h]) \o " is not a right kubeadm phase"]

\* r.GetStatus(tenantControlPlane): the address of the phase's status field
GetStatus(h) ==
    CASE phase[h] = PhaseUploadConfigKubeadm -> [field |-> "UploadConfigKubeadm", err |-> NoErr]
      [] phase[h] = PhaseUploadConfigKubelet -> [field |-> "UploadConfigKubelet", err |-> NoErr]
      [] phase[h] = PhaseBootstrapToken      -> [field |-> "BootstrapToken", err |-> NoErr]
      [] OTHER -> [field |-> "nil", err |-> FmtPhase(phase[h]) \o " is not a right kubeadm phase"]

\* KubeadmPhaseStatus.SetChecksum on the field GetStatus returned
SetChecksum(st, field, c) == [st EXCEPT ![field] = c]

\* all three fields are of type KubeadmPhaseStatus: the type assertion of
\* isStatusEqual succeeds on every field GetStatus returns
IsKubeadmPhaseStatus(field) == field \in StatusFields

\* mutant: compares with != instead of ==
isStatusEqual_Negated(h) ==
    LET i == GetStatus(h) IN
    IF i.err # NoErr THEN TRUE
    ELSE IF ~IsKubeadmPhaseStatus(i.field) THEN FALSE
    ELSE status[i.field] # checksum[h]

\* mutant: a failed lookup reports "not equal"
isStatusEqual_LookupErrFalse(h) ==
    LET i == GetStatus(h) IN
    IF i.err # NoErr THEN FALSE
    ELSE IF ~IsKubeadmPhaseStatus(i.field) THEN FALSE
    ELSE status[i.field] = checksum[h]

isStatusEqual(h) ==
    LET i == GetStatus(h) IN
    IF i.err # NoErr THEN TRUE
    ELSE IF ~IsKubeadmPhaseStatus(i.field) THEN FALSE
    ELSE status[i.field] = checksum[h]

\* mutant: the negation is missing
ShouldStatusBeUpdated_Unnegated(h) == isStatusEqual(h)

ShouldStatusBeUpdated(h) == ~isStatusEqual(h)

----------------------------------------------------------------------------
(* Calls *)

Call(op, h, ret, err, cause) ==
    [op |-> op, h |-> h, arg |-> "none", ret |-> ret, err |-> err, cause |-> cause]

BoolStr(b) == IF b THEN "true" ELSE "false"

\* the context.Context a call is handed: live, or already canceled
Contexts == {"ctx.live", "ctx.canceled"}
Canceled == "context canceled"

\* the record of a call that takes a context
CtxCall(op, ctx, h, ret, err, cause) == [Call(op, h, ret, err, cause) EXCEPT !.arg = ctx]

\* mutant: the setter drops the value
SetKubeadmConfigChecksum_NoStore(h, c) ==
    /\ last' = [Call("SetKubeadmConfigChecksum", h, "void", NoErr, NoErr) EXCEPT !.arg = c]
    /\ UNCHANGED <<phase, checksum, status, applied, bootstrapTokens, enrichArg, invoked>>

SetKubeadmConfigChecksum(h, c) ==
    /\ checksum' = [checksum EXCEPT ![h] = c]
    /\ applied' = [applied EXCEPT ![h] = applied[h] /\ c = checksum[h]]
    /\ last' = [Call("SetKubeadmConfigChecksum", h, "void", NoErr, NoErr) EXCEPT !.arg = c]
    /\ UNCHANGED <<phase, status, bootstrapTokens, enrichArg, invoked>>

DoShouldStatusBeUpdated(ctx, h) ==
    /\ last' = CtxCall("ShouldStatusBeUpdated", ctx, h, BoolStr(ShouldStatusBeUpdated(h)), NoErr, GetStatus(h).err)
    /\ UNCHANGED <<phase, checksum, status, applied, bootstrapTokens, enrichArg, invoked>>

\* mutant: the checksum is written to the record of every phase
UpdateTenantControlPlaneStatus_AllFields(ctx, h) ==
    /\ IF String(phase[h]) = Panic
       THEN /\ last' = CtxCall("UpdateTenantControlPlaneStatus", ctx, h, Panic, Panic, Panic)
            /\ UNCHANGED status
       ELSE LET s == GetStatus(h) IN
            IF s.err # NoErr
            THEN /\ last' = CtxCall("UpdateTenantControlPlaneStatus", ctx, h, "error", s.err, s.err)
                 /\ UNCHANGED status
            ELSE /\ status' = [f \in StatusFields |-> checksum[h]]
                 /\ last' = CtxCall("UpdateTenantControlPlaneStatus", ctx, h, "nil", NoErr, NoErr)
    /\ UNCHANGED <<phase, checksum, applied, bootstrapTokens, enrichArg, invoked>>

\* mutant: the call to SetChecksum is missing
UpdateTenantControlPlaneStatus_NoWrite(ctx, h) ==
    /\ IF String(phase[h]) = Panic
       THEN last' = CtxCall("UpdateTenantControlPlaneStatus", ctx, h, Panic, Panic, Panic)
       ELSE LET s == GetStatus(h) IN
            IF s.err # NoErr
            THEN last' = CtxCall("UpdateTenantControlPlaneStatus", ctx, h, "error", s.err, s.err)
            ELSE last' = CtxCall("UpdateTenantControlPlaneStatus", ctx, h, "nil", NoErr, NoErr)
    /\ UNCHANGED <<phase, checksum, status, applied, bootstrapTokens, enrichArg, invoked>>

UpdateTenantControlPlaneStatus(ctx, h) ==
    /\ IF String(phase[h]) = Panic
       THEN /\ last' = CtxCall("UpdateTenantControlPlaneStatus", ctx, h, Panic, Panic, Panic)
            /\ UNCHANGED status
       ELSE LET s == GetStatus(h) IN
            IF s.err # NoErr
            THEN /\ last' = CtxCall("UpdateTenantControlPlaneStatus", ctx, h, "error", s.err, s.err)
                 /\ UNCHANGED status
            ELSE /\ status' = SetChecksum(status, s.field, checksum[h])
                 /\ last' = CtxCall("UpdateTenantControlPlaneStatus", ctx, h, "nil", NoErr, NoErr)
    /\ UNCHANGED <<phase, checksum, applied, bootstrapTokens, enrichArg, invoked>>

ShouldCleanup(h) ==
    /\ last' = Call("ShouldCleanup", h, "false", NoErr, NoErr)
    /\ UNCHANGED <<phase, checksum, status, applied, bootstrapTokens, enrichArg, invoked>>

\* mutant: the clean-up resets the fingerprint of the phase
CleanUp_ClearsStatus(ctx, h) ==
    /\ last' = CtxCall("CleanUp", ctx, h, "false", NoErr, NoErr)
    /\ status' = IF GetStatus(h).err = NoErr
                 THEN SetChecksum(status, GetStatus(h).field, "")
                 ELSE status
    /\ UNCHANGED <<phase, checksum, applied, bootstrapTokens, enrichArg, invoked>>

CleanUp(ctx, h) ==
    /\ last' = CtxCall("CleanUp", ctx, h, "false", NoErr, NoErr)
    /\ UNCHANGED <<phase, checksum, status, applied, bootstrapTokens, enrichArg, invoked>>

Define(ctx, h) ==
    /\ last' = CtxCall("Define", ctx, h, "nil", NoErr, NoErr)
    /\ UNCHANGED <<phase, checksum, status, applied, bootstrapTokens, enrichArg, invoked>>

----------------------------------------------------------------------------
(* Bootstrap token enrichment *)

\* characters utils.RandomString draws from (a sample of the alphanumerics)
AlphaSample == {"k", "7"}
Alphanumerics == AlphaSample \cup {"a", "b", "c", "d", "e", "f", "0", "1"}

\* utils.RandomString(n): n random alphanumeric characters
RandomString(n) == {[i \in 1..n |-> c] : c \in AlphaSample}

IDLen == 6
SecretLen == 16

\* a bootstraptokenv1.BootstrapToken: Token is a pointer (hasToken = it is not
\* nil) to a BootstrapTokenString {ID, Secret}; Description stands for the
\* other fields of the record
NilToken(d) == [hasToken |-> FALSE, ID |-> <<>>, Secret |-> <<>>, Description |-> d]
ZeroToken == NilToken("")

CallerIDs == {<<>>, <<"a", "b", "c", "d", "e", "f">>}
CallerSecrets == {<<>>, [i \in 1..SecretLen |-> IF i % 2 = 1 THEN "0" ELSE "1"]}
Descriptions == {"", "kamaji"}

TokenValues ==
    {NilToken(d) : d \in Descriptions} \cup
    [hasToken : {TRUE}, ID : CallerIDs, Secret : CallerSecrets, Description : Descriptions]

TokenLists == UNION {[1..n -> TokenValues] : n \in 0..MaxTokens}

\* enrichBootstrapToken(&bootstrapToken), with id = RandomString(6) and
\* secret = RandomString(16) the two strings drawn
\* mutant: the identifier is generated whether or not one was supplied
enrichBootstrapToken_AlwaysRegenerate(bootstrapToken, id, secret) ==
    LET t == IF ~bootstrapToken.hasToken
             THEN [bootstrapToken EXCEPT !.hasToken = TRUE, !.ID = <<>>, !.Secret = <<>>]
             ELSE bootstrapToken
    IN  [t EXCEPT !.ID = id \o <<".">> \o secret]

enrichBootstrapToken(bootstrapToken, id, secret) ==
    LET t == IF ~bootstrapToken.hasToken
             THEN [bootstrapToken EXCEPT !.hasToken = TRUE, !.ID = <<>>, !.Secret = <<>>]
             ELSE bootstrapToken
    IN  IF t.ID = <<>> THEN [t EXCEPT !.ID = id \o <<".">> \o secret] ELSE t

\* mutant: the enriched token is written to the last slot
bootstrapTokensEnrichment_LastSlot(tokens, id, secret) ==
    LET bootstrapToken == IF Len(tokens) > 0 THEN tokens[1] ELSE ZeroToken
        enriched == enrichBootstrapToken(bootstrapToken, id, secret)
    IN  IF Len(tokens) = 0
        THEN [panicked |-> TRUE, tokens |-> tokens]
        ELSE [panicked |-> FALSE, tokens |-> [tokens EXCEPT ![Len(tokens)] = enriched]]

\* bootstrapTokensEnrichment(bootstrapTokens): the list the caller's slice
\* holds afterwards; the write to slot zero of an empty slice panics
bootstrapTokensEnrichment(tokens, id, secret) ==
    LET bootstrapToken == IF Len(tokens) > 0 THEN tokens[1] ELSE ZeroToken
        enriched == enrichBootstrapToken(bootstrapToken, id, secret)
    IN  IF Len(tokens) = 0
        THEN [panicked |-> TRUE, tokens |-> tokens]
        ELSE [panicked |-> FALSE, tokens |-> [tokens EXCEPT ![1] = enriched]]

Enrich ==
    \E id \in RandomString(IDLen), secret \in RandomString(SecretLen) :
        LET r == bootstrapTokensEnrichment(bootstrapTokens, id, secret) IN
        /\ enrichArg' = bootstrapTokens
        /\ bootstrapTokens' = r.tokens
        /\ last' = Call("bootstrapTokensEnrichment", "none",
                        IF r.panicked THEN Panic ELSE "void", NoErr, NoErr)
        /\ UNCHANGED <<phase, checksum, status, applied, invoked>>

----------------------------------------------------------------------------
(* Dispatch and apply *)

\* mutant: the case of PhaseUploadConfigKubelet is missing
GetKubeadmFunction_NoKubelet(h) ==
    CASE phase[h] = PhaseUploadConfigKubeadm -> [fn |-> "kubeadm.UploadKubeadmConfig", err |-> NoErr]
      [] phase[h] = PhaseBootstrapToken      -> [fn |-> "func", err |-> NoErr]
      [] OTHER -> [fn |-> "nil",
                   err |-> "no available functionality for phase " \o FmtPhase(phase[h])]

\* r.GetKubeadmFunction(): the function of the phase, by name
GetKubeadmFunction(h) ==
    CASE phase[h] = PhaseUploadConfigKubeadm -> [fn |-> "kubeadm.UploadKubeadmConfig", err |-> NoErr]
      [] phase[h] = PhaseUploadConfigKubelet -> [fn |-> "kubeadm.UploadKubeletConfig", err |-> NoErr]
      [] phase[h] = PhaseBootstrapToken      -> [fn |-> "func", err |-> NoErr]
      [] OTHER -> [fn |-> "nil",
                   err |-> "no available functionality for phase " \o FmtPhase(phase[h])]

DoGetKubeadmFunction(h) ==
    /\ last' = Call("GetKubeadmFunction", h, GetKubeadmFunction(h).fn,
                    GetKubeadmFunction(h).err, GetKubeadmFunction(h).err)
    /\ UNCHANGED <<phase, checksum, status, applied, bootstrapTokens, enrichArg, invoked>>

\* the token lists of the configurations handed to the apply function
ConfigTokenLists ==
    {<<>>, <<ZeroToken>>,
     <<[hasToken |-> TRUE, ID |-> <<"a", "b", "c", "d", "e", "f">>, Secret |-> <<>>,
        Description |-> ""]>>}

\* what an external kubeadm routine returns: a byte payload and an error
\* (kubeadm.BootstrapToken returns the error alone)
RoutineResults ==
    {[payload |-> "bytes", err |-> NoErr],
     [payload |-> "nil", err |-> "apply failed"],
     [payload |-> "partial", err |-> "apply failed"]}

RoutineResult(e) == [payload |-> IF e = NoErr THEN "bytes" ELSE "nil", err |-> e]

\* the external routine a dispatched function delegates to
RoutineOf(fn) == IF fn = "func" THEN "kubeadm.BootstrapToken" ELSE fn

NoInvocation == [name |-> "none", payload |-> "nil", err |-> NoErr]

\* the function GetKubeadmFunction returned, applied to a configuration whose
\* token list is tokens; out is what the external kubeadm routine returns
InvokeKubeadmFunction(fn, tokens, id, secret, out) ==
    IF fn = "func"
    THEN LET r == bootstrapTokensEnrichment(tokens, id, secret) IN
         IF r.panicked
         THEN [panicked |-> TRUE, payload |-> "nil", err |-> Panic, tokens |-> r.tokens]
         ELSE [panicked |-> FALSE, payload |-> "nil", err |-> out.err, tokens |-> r.tokens]
    ELSE [panicked |-> FALSE, payload |-> out.payload, err |-> out.err, tokens |-> tokens]

\* the state of the random source utils.RandomString reads
RngStates == {"rng.ok", "rng.unavailable"}

\* what utils.RandomString(n), which returns a string and no error, can hand
\* back when the random source is unavailable: any string, the empty one
\* included (or it panics: the fatal flag of ApplyDispatched)
DegradedRandomString(n) == RandomString(n) \cup {<<>>}

\* the enrichment of this token list calls utils.RandomString
NeedsRandom(tokens) == Len(tokens) > 0 /\ (~tokens[1].hasToken \/ tokens[1].ID = <<>>)

\* a direct call of the function GetKubeadmFunction returned for the handle,
\* on the caller's configuration
ApplyDispatched(h) ==
    LET f == GetKubeadmFunction(h) IN
    /\ f.err = NoErr
    /\ \E rng \in RngStates, fatal \in BOOLEAN, out \in RoutineResults :
       \E id \in (IF rng = "rng.ok" THEN RandomString(IDLen) ELSE DegradedRandomString(IDLen)),
          secret \in (IF rng = "rng.ok" THEN RandomString(SecretLen)
                      ELSE DegradedRandomString(SecretLen)) :
         LET r == InvokeKubeadmFunction(f.fn, bootstrapTokens, id, secret, out)
             randomPanics == /\ f.fn = "func"
                             /\ NeedsRandom(bootstrapTokens)
                             /\ rng = "rng.unavailable"
                             /\ fatal
         IN  /\ enrichArg' = IF f.fn = "func" THEN bootstrapTokens ELSE enrichArg
             /\ IF randomPanics \/ r.panicked
                THEN /\ last' = [Call("apply", h, Panic, Panic, Panic) EXCEPT !.arg = rng]
                     /\ invoked' = NoInvocation
                     /\ UNCHANGED bootstrapTokens
                ELSE /\ last' = [Call("apply", h, r.payload, r.err, out.err) EXCEPT !.arg = rng]
                     /\ invoked' = [name |-> RoutineOf(f.fn), payload |-> out.payload,
                                    err |-> out.err]
                     /\ bootstrapTokens' = r.tokens
    /\ UNCHANGED <<phase, checksum, status, applied>>

\* KubeadmPhaseCreate(ctx, r, logger, tenantControlPlane): resolves the
\* phase's function, applies it and, when it succeeded, stores the computed
\* fingerprint on the handle; the status record is left to
\* UpdateTenantControlPlaneStatus. The outcome tag of a successful apply
\* (created, updated, unchanged) is recorded as "ok". Handed a canceled
\* context it aborts with the cancellation error.
KubeadmPhaseApply(ctx, h) ==
    LET f == GetKubeadmFunction(h) IN
       IF ctx = "ctx.canceled"
       THEN /\ last' = CtxCall("CreateOrUpdate", ctx, h, "error", Canceled, Canceled)
            /\ applied' = [applied EXCEPT ![h] = FALSE]
            /\ UNCHANGED checksum
       ELSE IF f.err # NoErr
       THEN /\ last' = CtxCall("CreateOrUpdate", ctx, h, "error", f.err, f.err)
            /\ applied' = [applied EXCEPT ![h] = FALSE]
            /\ UNCHANGED checksum
       ELSE \E tokens \in (IF f.fn = "func" THEN ConfigTokenLists ELSE {<<>>}),
               id \in (IF f.fn = "func" THEN RandomString(IDLen) ELSE {<<>>}),
               secret \in (IF f.fn = "func" THEN RandomString(SecretLen) ELSE {<<>>}),
               e \in ApplyErrors :
            LET r == InvokeKubeadmFunction(f.fn, tokens, id, secret, RoutineResult(e)) IN
            IF r.panicked
            THEN /\ last' = CtxCall("CreateOrUpdate", ctx, h, Panic, Panic, Panic)
                 /\ applied' = [applied EXCEPT ![h] = FALSE]
                 /\ UNCHANGED checksum
            ELSE IF r.err # NoErr
            THEN /\ last' = CtxCall("CreateOrUpdate", ctx, h, "error", r.err, r.err)
                 /\ applied' = [applied EXCEPT ![h] = FALSE]
                 /\ UNCHANGED checksum
            ELSE \E fp \in Digests :
                 /\ checksum' = [checksum EXCEPT ![h] = fp]
                 /\ applied' = [applied EXCEPT ![h] = TRUE]
                 /\ last' = CtxCall("CreateOrUpdate", ctx, h, "ok", NoErr, NoErr)

KubeadmPhaseCreate(ctx, h) ==
    /\ KubeadmPhaseApply(ctx, h)
    /\ UNCHANGED <<phase, status, bootstrapTokens, enrichArg, invoked>>

\* mutant: the handle's checksum is projected onto the status before the
\* apply is attempted
CreateOrUpdate_StatusFirst(ctx, h) ==
    IF String(phase[h]) = Panic
    THEN /\ last' = CtxCall("CreateOrUpdate", ctx, h, Panic, Panic, Panic)
         /\ UNCHANGED <<phase, checksum, status, applied, bootstrapTokens, enrichArg, invoked>>
    ELSE /\ KubeadmPhaseApply(ctx, h)
         /\ status' = IF GetStatus(h).err = NoErr
                      THEN SetChecksum(status, GetStatus(h).field, checksum[h])
                      ELSE status
         /\ UNCHANGED <<phase, bootstrapTokens, enrichArg, invoked>>

CreateOrUpdate(ctx, h) ==
    IF String(phase[h]) = Panic
    THEN /\ last' = CtxCall("CreateOrUpdate", ctx, h, Panic, Panic, Panic)
         /\ UNCHANGED <<phase, checksum, status, applied, bootstrapTokens, enrichArg, invoked>>
    ELSE KubeadmPhaseCreate(ctx, h)

----------------------------------------------------------------------------
(* Specifications *)

\* the two handles are interchangeable: of every pair of phase assignments
\* that differ by renaming the handles, one is kept
Init ==
    /\ phase \in [Handles -> PhaseValues]
    /\ phase["r1"] <= phase["r2"]
    /\ checksum = [h \in Handles |-> ""]
    /\ applied = [h \in Handles |-> FALSE]
    /\ status \in [StatusFields -> Fingerprints]
    /\ bootstrapTokens = <<>>
    /\ enrichArg = <<>>
    /\ invoked = NoInvocation
    /\ last = Call("new", "none", "void", NoErr, NoErr)

Next ==
    \/ \E h \in Handles, c \in Fingerprints : SetKubeadmConfigChecksum(h, c)
    \/ \E ctx \in Contexts, h \in Handles : DoShouldStatusBeUpdated(ctx, h)
    \/ \E ctx \in Contexts, h \in Handles : UpdateTenantControlPlaneStatus(ctx, h)
    \/ \E h \in Handles : ShouldCleanup(h)
    \/ \E ctx \in Contexts, h \in Handles : CleanUp(ctx, h)
    \/ \E ctx \in Contexts, h \in Handles : Define(ctx, h)
    \/ \E h \in Handles : DoGetKubeadmFunction(h)
    \/ \E ctx \in Contexts, h \in Handles : CreateOrUpdate(ctx, h)

Spec == Init /\ [][Next]_vars

\* the enrichment alone, on every token list of up to MaxTokens tokens
InitEnrich ==
    /\ phase = [h \in Handles |-> PhaseBootstrapToken]
    /\ checksum = [h \in Handles |-> ""]
    /\ applied = [h \in Handles |-> FALSE]
    /\ status = [f \in StatusFields |-> ""]
    /\ bootstrapTokens \in TokenLists
    /\ enrichArg = <<>>
    /\ invoked = NoInvocation
    /\ last = Call("new", "none", "void", NoErr, NoErr)

NextEnrich == Enrich

SpecEnrich == InitEnrich /\ [][NextEnrich]_vars

\* the token lists of the configurations the dispatched functions are
\* called on directly
DispatchTokenLists ==
    ConfigTokenLists \cup
    {<<[hasToken |-> TRUE, ID |-> <<>>, Secret |-> <<>>, Description |-> "kamaji"],
       NilToken("")>>}

\* the dispatch alone: resolving the function of a handle and calling it
InitDispatch ==
    /\ phase \in [Handles -> PhaseValues]
    /\ phase["r1"] <= phase["r2"]
    /\ checksum = [h \in Handles |-> ""]
    /\ applied = [h \in Handles |-> FALSE]
    /\ status = [f \in StatusFields |-> ""]
    /\ bootstrapTokens \in DispatchTokenLists
    /\ enrichArg = <<>>
    /\ invoked = NoInvocation
    /\ last = Call("new", "none", "void", NoErr, NoErr)

NextDispatch ==
    \/ \E h \in Handles : DoGetKubeadmFunction(h)
    \/ \E h \in Handles : ApplyDispatched(h)

SpecDispatch == InitDispatch /\ [][NextDispatch]_vars

----------------------------------------------------------------------------
(* Properties *)

\* the persisted fingerprint of a declared phase, read by the name of the
\* status field rather than through GetStatus
Persisted(p) ==
    CASE p = PhaseUploadConfigKubeadm -> status["UploadConfigKubeadm"]
      [] p = PhaseUploadConfigKubelet -> status["UploadConfigKubelet"]
      [] p = PhaseBootstrapToken      -> status["BootstrapToken"]

IsCall(op) == last.op = op /\ last.h \in Handles

C2_WriteOnlyAfterApply ==
    [][status' # status =>
          (last'.op = "UpdateTenantControlPlaneStatus" /\ applied[last'.h])]_vars

\* C2 (amended): a persisted fingerprint changes only in a successful
\* UpdateTenantControlPlaneStatus, which writes the handle's current checksum,
\* whatever its origin, to the record of the handle's phase; CreateOrUpdate
\* writes none, and a failed CreateOrUpdate leaves the handle's checksum as
\* it was.
C2_WriteIsCurrentChecksum ==
    [][/\ status' # status =>
            /\ last'.op = "UpdateTenantControlPlaneStatus"
            /\ last'.err = NoErr
            /\ phase[last'.h] \in DeclaredPhases
            /\ \A q \in DeclaredPhases :
                 Persisted(q)' = IF q = phase[last'.h] THEN checksum[last'.h]
                                 ELSE Persisted(q)
       /\ (last'.op = "CreateOrUpdate" /\ last'.err # NoErr) => checksum' = checksum]_vars

\* C2 witness: a status write stored a fingerprint that no apply produced
\* (the caller set it)
C2_Witness ==
    /\ IsCall("UpdateTenantControlPlaneStatus")
    /\ last.err = NoErr
    /\ ~applied[last.h]
    /\ checksum[last.h] = "abc123"
    /\ Persisted(phase[last.h]) = "abc123"

\* C3: for a handle of a declared phase, ShouldStatusBeUpdated is true
\* exactly when the handle's checksum differs from the persisted checksum of
\* that phase, and the call returns that value.
C3_ShouldIffDiffers ==
    /\ \A h \in Handles : phase[h] \in DeclaredPhases =>
          (ShouldStatusBeUpdated(h) <=> checksum[h] # Persisted(phase[h]))
    /\ (IsCall("ShouldStatusBeUpdated") /\ phase[last.h] \in DeclaredPhases) =>
          last.ret = BoolStr(checksum[last.h] # Persisted(phase[last.h]))

\* C3 witness: the call returned true on two different non-empty fingerprints
C3_Witness ==
    /\ IsCall("ShouldStatusBeUpdated")
    /\ phase[last.h] \in DeclaredPhases
    /\ checksum[last.h] = "abc123"
    /\ Persisted(phase[last.h]) = "def456"
    /\ last.ret = "true"

\* a step of handle h itself, or of a handle of another phase
OwnOrOtherPhase(h) == last'.h = h \/ phase[last'.h] # phase[h]

\* C4: idempotence. After a successful status write of a handle of a declared
\* phase ShouldStatusBeUpdated is false, and it stays false over every further
\* call (applies and status writes included) that leaves the handle's
\* fingerprint the same, the phase having this one writer.
C4_Idempotence ==
    [][\A h \in Handles : phase[h] \in DeclaredPhases =>
          /\ (/\ last'.op = "UpdateTenantControlPlaneStatus"
              /\ last'.h = h
              /\ last'.err = NoErr) => ~ShouldStatusBeUpdated(h)'
          /\ (/\ ~ShouldStatusBeUpdated(h)
              /\ checksum'[h] = checksum[h]
              /\ OwnOrOtherPhase(h)) => ~ShouldStatusBeUpdated(h)']_vars

\* C4 witness: a status write of an applied fingerprint, after which no update
\* is needed
C4_Witness ==
    /\ IsCall("UpdateTenantControlPlaneStatus")
    /\ last.err = NoErr
    /\ applied[last.h]
    /\ checksum[last.h] = "def456"
    /\ ~ShouldStatusBeUpdated(last.h)

\* a successful status write to the record of the phase of h
WritesPhaseOf(h) ==
    /\ last'.op = "UpdateTenantControlPlaneStatus"
    /\ last'.err = NoErr
    /\ phase[last'.h] = phase[h]

C6_LookupFailureIsFalse ==
    (IsCall("ShouldStatusBeUpdated") /\ GetStatus(last.h).err # NoErr) =>
        (last.ret = "false" /\ last.err = NoErr)

\* C6 witness: the lookup failed for a handle that carries a fingerprint
C6_Witness ==
    /\ IsCall("ShouldStatusBeUpdated")
    /\ GetStatus(last.h).err # NoErr
    /\ checksum[last.h] = "abc123"
    /\ last.ret = "false"

\* C7 (as claimed): when the lookup fails inside the drift check,
\* ShouldStatusBeUpdated returns true.
C7_LookupFailureIsTrue ==
    (IsCall("ShouldStatusBeUpdated") /\ last.cause # NoErr) => last.ret = "true"

\* C7 (amended): a lookup error is swallowed (it occurred and the call
\* returned no error) only in the drift check, and there the consequence is
\* "treat as unchanged": isStatusEqual is true and ShouldStatusBeUpdated
\* returns false, so that the status write is skipped.
C7_SwallowedMeansUnchanged ==
    (last.cause # NoErr /\ last.err = NoErr) =>
        /\ IsCall("ShouldStatusBeUpdated")
        /\ last.cause = GetStatus(last.h).err
        /\ isStatusEqual(last.h)
        /\ last.ret = "false"

\* C7 witness: the drift check of a handle of phase 3 swallowed the error
C7_Witness ==
    /\ IsCall("ShouldStatusBeUpdated")
    /\ phase[last.h] = 3
    /\ last.cause # NoErr
    /\ last.err = NoErr
    /\ last.ret = "false"

\* [A-Za-z0-9]{6}\.[A-Za-z0-9]{16}
MatchesTokenPattern(s) ==
    /\ Len(s) = IDLen + 1 + SecretLen
    /\ \A i \in 1..IDLen : s[i] \in Alphanumerics
    /\ s[IDLen + 1] = "."
    /\ \A i \in (IDLen + 2)..(IDLen + 1 + SecretLen) : s[i] \in Alphanumerics

EnrichmentDone == last.op = "bootstrapTokensEnrichment"

\* C8: the enrichment of an empty token list completes normally and leaves
\* the caller with a list of exactly one token, whose identifier matches
\* [A-Za-z0-9]{6}\.[A-Za-z0-9]{16}.
C8_EmptyListDefaulting ==
    (EnrichmentDone /\ enrichArg = <<>>) =>
        /\ last.ret # Panic
        /\ Len(bootstrapTokens) = 1
        /\ bootstrapTokens[1].hasToken
        /\ MatchesTokenPattern(bootstrapTokens[1].ID)

\* C9: after the enrichment of a token, its identifier and its secret are
\* both non-empty.
C9_EnrichedTokenComplete ==
    (EnrichmentDone /\ last.ret # Panic) =>
        /\ bootstrapTokens[1].hasToken
        /\ bootstrapTokens[1].ID # <<>>
        /\ bootstrapTokens[1].Secret # <<>>

\* C10: the enrichment of a non-empty list whose first token has an identifier
\* changes nothing in the list, and a second enrichment of any non-empty list
\* changes nothing, whatever the strings drawn.
C10_EnrichmentIdempotent ==
    /\ (/\ EnrichmentDone
        /\ Len(enrichArg) > 0
        /\ enrichArg[1].hasToken
        /\ enrichArg[1].ID # <<>>) => bootstrapTokens = enrichArg
    /\ (EnrichmentDone /\ last.ret # Panic) =>
          \A id \in RandomString(IDLen), secret \in RandomString(SecretLen) :
              LET again == bootstrapTokensEnrichment(bootstrapTokens, id, secret) IN
              ~again.panicked /\ again.tokens = bootstrapTokens

\* C10 witness: a two-token list with a caller-supplied identifier and no
\* secret went through the enrichment unchanged
C10_Witness ==
    /\ EnrichmentDone
    /\ Len(enrichArg) = 2
    /\ enrichArg[1].hasToken
    /\ enrichArg[1].ID # <<>>
    /\ enrichArg[1].Secret = <<>>
    /\ bootstrapTokens = enrichArg

\* the identifier each declared phase is declared under
DeclaredName(p) ==
    CASE p = PhaseUploadConfigKubeadm -> "PhaseUploadConfigKubeadm"
      [] p = PhaseUploadConfigKubelet -> "PhaseUploadConfigKubelet"
      [] p = PhaseBootstrapToken      -> "PhaseBootstrapToken"

\* C11: for a phase value outside the declared enumeration GetKubeadmFunction
\* returns a nil function and an error whose message names that value (the
\* message ends in the value's display name, which is a name, String not
\* having panicked, and is not the name of a declared phase), and no apply
\* routine is invoked: the token list and the invocation record stay as they
\* were.
C11_UnsupportedPhaseNamed ==
    [][\A h \in Handles :
          (last'.op = "GetKubeadmFunction" /\ last'.h = h /\ phase[h] \notin DeclaredPhases) =>
              /\ last'.ret = "nil"
              /\ String(phase[h]) # Panic
              /\ last'.err = "no available functionality for phase " \o String(phase[h])
              /\ String(phase[h]) \notin {DeclaredName(q) : q \in DeclaredPhases}
              /\ invoked' = invoked
              /\ bootstrapTokens' = bootstrapTokens]_vars

\* C12: UpdateTenantControlPlaneStatus of a declared phase overwrites that
\* phase's persisted fingerprint with the handle's checksum and returns nil;
\* when the status lookup fails it returns the lookup error and leaves every
\* persisted fingerprint unchanged.
C12_UpdateStatus ==
    [][\A h \in Handles :
          (last'.op = "UpdateTenantControlPlaneStatus" /\ last'.h = h) =>
              IF phase[h] \in DeclaredPhases
              THEN /\ last'.err = NoErr
                   /\ Persisted(phase[h])' = checksum[h]
              ELSE /\ last'.ret # Panic
                   /\ last'.err = GetStatus(h).err
                   /\ status' = status]_vars

\* C13: a call handed an already-canceled context performs no effect (no
\* persisted fingerprint and no checksum changes) and returns the
\* cancellation error.
C13_CanceledAborts ==
    [][last'.arg = "ctx.canceled" =>
          /\ status' = status
          /\ checksum' = checksum
          /\ last'.err = Canceled]_vars

\* C14: the function resolved for PhaseBootstrapToken returns normally, having
\* called kubeadm.BootstrapToken on a token list whose first token has an
\* identifier, with a nil payload and the routine's error; the functions
\* resolved for the upload phases return the upload routine's payload and
\* error.
C14_DispatchDelegates ==
    IsCall("apply") =>
        IF phase[last.h] = PhaseBootstrapToken
        THEN /\ last.ret = "nil"
             /\ invoked.name = "kubeadm.BootstrapToken"
             /\ Len(bootstrapTokens) > 0
             /\ bootstrapTokens[1].hasToken
             /\ bootstrapTokens[1].ID # <<>>
             /\ last.err = invoked.err
        ELSE /\ invoked.name = GetKubeadmFunction(last.h).fn
             /\ last.ret = invoked.payload
             /\ last.err = invoked.err

\* the last call of the PhaseBootstrapToken function had to generate an
\* identifier while the random source was unavailable
EnrichmentFailed ==
    /\ IsCall("apply")
    /\ phase[last.h] = PhaseBootstrapToken
    /\ last.arg = "rng.unavailable"
    /\ NeedsRandom(enrichArg)

\* C15: when the random source is unavailable the PhaseBootstrapToken function
\* returns an error, kubeadm.BootstrapToken is not called and no identifier
\* is generated.
C15_EnrichmentFailureFatal ==
    EnrichmentFailed =>
        /\ last.err \notin {NoErr, Panic}
        /\ invoked.name = "none"
        /\ bootstrapTokens = enrichArg

\* C16: ShouldCleanup returns false, CleanUp returns (false, nil) and Define
\* returns nil, and none of them changes a checksum or a persisted
\* fingerprint.
C16_NoTeardown ==
    [][last'.op \in {"ShouldCleanup", "CleanUp", "Define"} =>
          /\ last'.ret = (IF last'.op = "Define" THEN "nil" ELSE "false")
          /\ last'.err = NoErr
          /\ checksum' = checksum
          /\ status' = status]_vars

\* C16 witness: CleanUp returned on a handle whose phase has a persisted
\* fingerprint
C16_Witness ==
    /\ IsCall("CleanUp")
    /\ last.ret = "false"
    /\ phase[last.h] \in DeclaredPhases
    /\ checksum[last.h] = "abc123"
    /\ Persisted(phase[last.h]) = "abc123"

\* C17: the enrichment of a non-empty list keeps its length and every element
\* after the first; of the first it changes the identifier alone (the Token
\* record being allocated when it was nil), and only when it was empty.
C17_WriteBackFrame ==
    (EnrichmentDone /\ Len(enrichArg) > 0) =>
        /\ last.ret # Panic
        /\ Len(bootstrapTokens) = Len(enrichArg)
        /\ \A i \in 2..Len(enrichArg) : bootstrapTokens[i] = enrichArg[i]
        /\ bootstrapTokens[1].hasToken
        /\ bootstrapTokens[1].Description = enrichArg[1].Description
        /\ bootstrapTokens[1].Secret = enrichArg[1].Secret
        /\ IF enrichArg[1].ID # <<>>
           THEN bootstrapTokens[1].ID = enrichArg[1].ID
           ELSE MatchesTokenPattern(bootstrapTokens[1].ID)

\* C17 witness: a two-token list whose first token had a secret and no
\* identifier was given one
C17_Witness ==
    /\ EnrichmentDone
    /\ Len(enrichArg) = 2
    /\ enrichArg[1].hasToken
    /\ enrichArg[1].ID = <<>>
    /\ enrichArg[1].Secret # <<>>
    /\ bootstrapTokens[1].ID # <<>>
    /\ bootstrapTokens[2] = enrichArg[2]

\* C18: UpdateTenantControlPlaneStatus of a handle changes no checksum and no
\* persisted fingerprint other than that of the handle's own phase.
C18_StatusWriteFrame ==
    [][\A h \in Handles :
          (last'.op = "UpdateTenantControlPlaneStatus" /\ last'.h = h) =>
              /\ checksum' = checksum
              /\ \A q \in DeclaredPhases : q # phase[h] => Persisted(q)' = Persisted(q)]_vars

\* C18 witness: two handles of different declared phases have each written
\* their own fingerprint
C18_Witness ==
    /\ IsCall("UpdateTenantControlPlaneStatus")
    /\ last.err = NoErr
    /\ phase["r1"] \in DeclaredPhases
    /\ phase["r2"] \in DeclaredPhases
    /\ phase["r1"] # phase["r2"]
    /\ checksum["r1"] = "abc123"
    /\ checksum["r2"] = "def456"
    /\ Persisted(phase["r1"]) = "abc123"
    /\ Persisted(phase["r2"]) = "def456"

\* C19: the display name that a call on a handle of a declared phase logs is
\* the name that phase is declared under.
C19_DisplayName ==
    (IsCall("UpdateTenantControlPlaneStatus") /\ phase[last.h] \in DeclaredPhases) =>
        String(phase[last.h]) = DeclaredName(phase[last.h])

\* C20: for every handle, GetKubeadmFunction succeeds exactly when GetStatus
\* succeeds, and handles of different declared phases are projected onto
\* different status records.
C20_DispatchAgreesWithStatus ==
    /\ \A h \in Handles : (GetKubeadmFunction(h).err = NoErr) <=> (GetStatus(h).err = NoErr)
    /\ \A h1, h2 \in Handles :
          (GetStatus(h1).err = NoErr /\ GetStatus(h2).err = NoErr /\ phase[h1] # phase[h2])
             => GetStatus(h1).field # GetStatus(h2).field

\* C20 witness: the function of PhaseBootstrapToken was resolved, beside a
\* handle of an undeclared phase for which both lookups fail
C20_Witness ==
    /\ IsCall("GetKubeadmFunction")
    /\ phase[last.h] = PhaseBootstrapToken
    /\ last.err = NoErr
    /\ GetStatus(last.h).err = NoErr
    /\ \E h \in Handles : GetKubeadmFunction(h).err # NoErr /\ GetStatus(h).err # NoErr

====
